---- MODULE Spec2Model ----
(***************************************************************************)
(* Model of the MedTranslation term store (MedicalDictionary): the         *)
(* in-memory mapping of each store instance, the backing JSON file, the    *)
(* wall clock read by datetime.now(), the rows an import has still to      *)
(* read, and the record of the last call. The environment (arguments,      *)
(* clock, file system, number of instances) is chosen per specification:   *)
(* Spec varies the arguments, SpecClock the clock, SpecDisk the outcomes   *)
(* of file operations, SpecTwo the number of store instances.              *)
(***************************************************************************)
EXTENDS Integers, Sequences, FiniteSets, TLC

\* ------------------------------------------------------------------ bounds
\* Largest reading of the wall clock.
MaxClock == 2
\* Largest number of version entries held by one store instance, all keys together.
MaxEntries == 3

\* ------------------------------------------------------------------ values
\* Python's None, passed where a str is expected.
None == <<"None">>

\* Strings are sequences of characters. The Vietnamese letters are written by name:
\* "o-circ" is o with circumflex, "o-circ-acute" the same with the acute tone mark,
\* "d-bar" d with stroke, "O-circ" and "D-bar" the capitals.
EnglishArgs == { <<"a">>, <<" ", "A">>, <<"b">>, None }
VietnameseArgs == { <<"x">>, <<"Y", " ">> }

\* Store instances (processes) sharing one backing file.
Writers == { 1, 2 }

\* Outcomes of opening and writing the backing file in _save_dictionary.
SaveOutcomes == { "ok", "open_fails", "write_fails" }
\* Outcomes of reading the backing file in _load_dictionary.
LoadOutcomes == { "ok", "read_fails" }

\* ------------------------------------------------------------------ str
\* str.lower() on one character.
LowerChar(c) ==
  CASE c = "A" -> "a"
    [] c = "B" -> "b"
    [] c = "X" -> "x"
    [] c = "Y" -> "y"
    [] c = "O-circ" -> "o-circ"
    [] c = "D-bar" -> "d-bar"
    [] OTHER -> c

\* str.lower()
lower(s) == [i \in 1..Len(s) |-> LowerChar(s[i])]

\* Whitespace: the space, the carriage return "CR" and the line feed "LF".
IsSpace(c) == c \in { " ", "CR", "LF" }

RECURSIVE lstrip(_)
lstrip(s) == IF s # <<>> /\ IsSpace(Head(s)) THEN lstrip(Tail(s)) ELSE s

RECURSIVE rstrip(_)
rstrip(s) ==
  IF s # <<>> /\ IsSpace(s[Len(s)]) THEN rstrip(SubSeq(s, 1, Len(s) - 1)) ELSE s

\* str.strip()
strip(s) == rstrip(lstrip(s))

\* ------------------------------------------------------------------ dict
\* A Python dict is an insertion-ordered sequence of items [key, val].
DictKeys(d) == { d[i].key : i \in 1..Len(d) }

DictIndex(d, k) == CHOOSE i \in 1..Len(d) : d[i].key = k

\* d[k]
DictGet(d, k) == d[DictIndex(d, k)].val

\* d[k] = v: an existing key keeps its place, a new key goes last.
DictSet(d, k, v) ==
  IF k \in DictKeys(d)
  THEN [d EXCEPT ![DictIndex(d, k)] = [key |-> k, val |-> v]]
  ELSE Append(d, [key |-> k, val |-> v])

RECURSIVE SumLen(_)
SumLen(d) == IF d = <<>> THEN 0 ELSE Len(Head(d).val.versions) + SumLen(Tail(d))

\* ------------------------------------------------------------------ file
\* json.dump cut short after the first member of the object.
JsonDumpFirst(d) == [i \in 1..(IF Len(d) > 0 THEN 1 ELSE 0) |-> <<d[i].key, d[i].val>>]

\* json.dump(self.terms, f): the object's members, name then value, in dict order.
JsonDump(d) == [i \in 1..Len(d) |-> <<d[i].key, d[i].val>>]

\* json.load(f): the dict of the object's members.
JsonLoad(doc) == [i \in 1..Len(doc) |-> [key |-> doc[i][1], val |-> doc[i][2]]]

NoFile == [kind |-> "missing", doc |-> <<>>]
CorruptFile == [kind |-> "corrupt", doc |-> <<>>]

\* _save_dictionary merging into the file's members instead of overwriting.
RECURSIVE MergeInto(_, _)
MergeInto(d, t) ==
  IF t = <<>> THEN d ELSE MergeInto(DictSet(d, Head(t).key, Head(t).val), Tail(t))

SaveDictionaryMerge(t, f, oc) ==
  CASE oc = "ok" ->
         [kind |-> "json",
          doc |-> JsonDump(MergeInto(IF f.kind = "json" THEN JsonLoad(f.doc) ELSE <<>>, t))]
    [] oc = "open_fails" -> f
    [] OTHER -> CorruptFile

\* _save_dictionary: the file after the call. open('w') truncates; a failure of
\* open leaves the file as it was, a failure while writing leaves a partial document.
SaveDictionary(t, f, oc) ==
  CASE oc = "ok" -> [kind |-> "json", doc |-> JsonDump(t)]
    [] oc = "open_fails" -> f
    [] OTHER -> CorruptFile

\* _load_dictionary keeping what it parsed although the read ended in an error.
LoadDictionaryKeepPartial(f, oc) == IF f.kind = "json" THEN JsonLoad(f.doc) ELSE <<>>

\* _load_dictionary: self.terms after construction.
LoadDictionary(f, oc) ==
  IF f.kind = "json" /\ oc = "ok" THEN JsonLoad(f.doc) ELSE <<>>

\* ------------------------------------------------------------------ records
\* The entry a call appends to "versions".
VersionEntry(vietnamese, confidence, date, source) ==
  [vietnamese |-> vietnamese, confidence |-> confidence, date |-> date, source |-> source]

\* term_data stamped in the reverse order: added_date with the last reading of the
\* clock, the version entry with the first.
NewTermDataReversed(vietnamese, category, source, confidence, t1, t2, t3) ==
  [vietnamese |-> vietnamese,
   category |-> category,
   source |-> source,
   confidence |-> confidence,
   added_date |-> t3,
   last_updated |-> t2,
   versions |-> << VersionEntry(vietnamese, confidence, t1, source) >>]

\* term_data of add_term; t1, t2, t3 are its three readings of datetime.now().
NewTermData(vietnamese, category, source, confidence, t1, t2, t3) ==
  [vietnamese |-> vietnamese,
   category |-> category,
   source |-> source,
   confidence |-> confidence,
   added_date |-> t1,
   last_updated |-> t2,
   versions |-> << VersionEntry(vietnamese, confidence, t3, source) >>]

\* update_term stamping the record's added_date as well.
UpdatedTermResetAdded(term, vietnamese, source, confidence, t1, t2) ==
  [term EXCEPT
     !.versions = Append(@, VersionEntry(vietnamese, confidence, t1, source)),
     !.vietnamese = vietnamese,
     !.confidence = confidence,
     !.added_date = t1,
     !.last_updated = t2,
     !.source = source]

\* update_term overwriting the newest version entry instead of appending one.
UpdatedTermReplaceLast(term, vietnamese, source, confidence, t1, t2) ==
  [term EXCEPT
     !.versions = [@ EXCEPT ![Len(@)] = VersionEntry(vietnamese, confidence, t1, source)],
     !.vietnamese = vietnamese,
     !.confidence = confidence,
     !.last_updated = t2,
     !.source = source]

\* update_term leaving the record's current source as it was.
UpdatedTermKeepSource(term, vietnamese, source, confidence, t1, t2) ==
  [term EXCEPT
     !.versions = Append(@, VersionEntry(vietnamese, confidence, t1, source)),
     !.vietnamese = vietnamese,
     !.confidence = confidence,
     !.last_updated = t2]

\* The record after update_term's appends and assignments; t1 and t2 are its two
\* readings of datetime.now().
UpdatedTerm(term, vietnamese, source, confidence, t1, t2) ==
  [term EXCEPT
     !.versions = Append(@, VersionEntry(vietnamese, confidence, t1, source)),
     !.vietnamese = vietnamese,
     !.confidence = confidence,
     !.last_updated = t2,
     !.source = source]

\* ------------------------------------------------------------------ calls
\* What a call leaves behind: the store's mapping, the file, the clock's last
\* reading, the value returned and what became of the save ("none": no save tried).
Outcome(t, f, c, ret, saved, key) ==
  [terms |-> t, disk |-> f, clock |-> c, ret |-> ret, saved |-> saved, key |-> key]

\* add_term that, for a key already present, appends a version to its record.
AddTermResultUpsert(t, f, c, english, vietnamese, category, source, confidence, ds, oc) ==
  IF english = None \/ vietnamese = None
  THEN Outcome(t, f, c, "False", "none", None)
  ELSE LET e == strip(lower(english))
           v == strip(vietnamese)
           t1 == c + ds[1]
           t2 == t1 + ds[2]
           t3 == t2 + ds[3]
           t_new == IF e \in DictKeys(t)
                    THEN DictSet(t, e, UpdatedTerm(DictGet(t, e), v, source, confidence, t1, t2))
                    ELSE DictSet(t, e, NewTermData(v, category, source, confidence, t1, t2, t3))
       IN Outcome(t_new, SaveDictionary(t_new, f, oc), t3, "True", oc, e)

\* add_term keying the record by the trimmed argument, without lower-casing it.
AddTermResultRawKey(t, f, c, english, vietnamese, category, source, confidence, ds, oc) ==
  IF english = None \/ vietnamese = None
  THEN Outcome(t, f, c, "False", "none", None)
  ELSE LET e == strip(english)
           v == strip(vietnamese)
           t1 == c + ds[1]
           t2 == t1 + ds[2]
           t3 == t2 + ds[3]
           t_new == DictSet(t, e, NewTermData(v, category, source, confidence, t1, t2, t3))
       IN Outcome(t_new, SaveDictionary(t_new, f, oc), t3, "True", oc, e)

\* add_term saving the dictionary on its way out of the except clause.
AddTermResultSaveOnFailure(t, f, c, english, vietnamese, category, source, confidence, ds, oc) ==
  IF english = None \/ vietnamese = None
  THEN Outcome(t, SaveDictionary(t, f, oc), c, "False", oc, None)
  ELSE LET e == strip(lower(english))
           v == strip(vietnamese)
           t1 == c + ds[1]
           t2 == t1 + ds[2]
           t3 == t2 + ds[3]
           t_new == DictSet(t, e, NewTermData(v, category, source, confidence, t1, t2, t3))
       IN Outcome(t_new, SaveDictionary(t_new, f, oc), t3, "True", oc, e)

\* add_term(english, vietnamese, category, source, confidence) on mapping t, file f
\* and clock c; ds are the clock's advances before each of the three readings and
\* oc the outcome of the save.
AddTermResult(t, f, c, english, vietnamese, category, source, confidence, ds, oc) ==
  IF english = None \/ vietnamese = None
  THEN \* .lower() or .strip() of None raises; the except clause returns False
       Outcome(t, f, c, "False", "none", None)
  ELSE LET e == strip(lower(english))
           v == strip(vietnamese)
           t1 == c + ds[1]
           t2 == t1 + ds[2]
           t3 == t2 + ds[3]
           t_new == DictSet(t, e, NewTermData(v, category, source, confidence, t1, t2, t3))
       IN Outcome(t_new, SaveDictionary(t_new, f, oc), t3, "True", oc, e)

\* update_term creating the record of a key that is absent.
UpdateTermResultCreate(t, f, c, english, vietnamese, source, confidence, ds, oc) ==
  IF english = None \/ vietnamese = None
  THEN Outcome(t, f, c, "False", "none", None)
  ELSE LET e == strip(lower(english))
           v == strip(vietnamese)
           t1 == c + ds[1]
           t2 == t1 + ds[2]
           t_new == IF e \in DictKeys(t)
                    THEN DictSet(t, e, UpdatedTerm(DictGet(t, e), v, source, confidence, t1, t2))
                    ELSE DictSet(t, e, NewTermData(v, "general", source, confidence, t1, t2, t2))
       IN Outcome(t_new, SaveDictionary(t_new, f, oc), t2, "True", oc, e)

\* update_term(english, vietnamese, source, confidence); ds are the clock's advances
\* before each of the two readings.
UpdateTermResult(t, f, c, english, vietnamese, source, confidence, ds, oc) ==
  IF english = None \/ vietnamese = None
  THEN Outcome(t, f, c, "False", "none", None)
  ELSE LET e == strip(lower(english))
           v == strip(vietnamese)
       IN IF e \notin DictKeys(t)
          THEN Outcome(t, f, c, "False", "none", e)
          ELSE LET t1 == c + ds[1]
                   t2 == t1 + ds[2]
                   t_new == DictSet(t, e, UpdatedTerm(DictGet(t, e), v, source, confidence, t1, t2))
               IN Outcome(t_new, SaveDictionary(t_new, f, oc), t2, "True", oc, e)

\* get_translation(english): the record in a sequence of one, or the empty sequence
\* for None.
GetTranslation(t, english) ==
  LET e == strip(lower(english))
  IN IF e \in DictKeys(t) THEN << DictGet(t, e) >> ELSE << >>

\* ------------------------------------------------------------------ state
VARIABLES
  terms,    \* terms[w]: self.terms of store instance w
  disk,     \* the backing file at dictionary_path
  clock,    \* the last reading of datetime.now()
  pending,  \* pending[w]: the rows import_csv of w has still to read
  lastOp,   \* the last call: its name, instance, arguments as used and result
  cache     \* the files of cache_dir of the paper retrieval system, by path

vars == << terms, disk, clock, pending, lastOp, cache >>

\* Number of versions key k has in mapping t (0 when absent).
VersionsOf(t, k) == IF k \in DictKeys(t) THEN Len(DictGet(t, k).versions) ELSE 0

\* The mapping differs from what the file holds.
Stale(t, f) == LoadDictionary(f, "ok") # t

\* The keys of the document in file f.
FileKeys(f) == DictKeys(LoadDictionary(f, "ok"))

\* The record of a call by instance w: its name, its arguments as passed, the key
\* it used, what it returned and what became of its save; and what it found: the
\* number of versions its key had, whether the mapping differed from the file,
\* whether it is the first call of an instance constructed without a readable file,
\* and the keys its save removed from the file.
Call(op, w, english, vietnamese, key, ret, saved, fileAfter) ==
  [op |-> op, w |-> w, english |-> english, vietnamese |-> vietnamese, key |-> key,
   ret |-> ret, saved |-> saved,
   had |-> VersionsOf(terms[w], key),
   stale |-> Stale(terms[w], disk),
   fresh |-> lastOp.op \in {"init", "load"} /\ lastOp.w = w /\ lastOp.found # "json",
   dropped |-> FileKeys(disk) \ FileKeys(fileAfter),
   found |-> "na"]

\* The record of a construction, which found the file in state `found`.
Construction(op, w, found) ==
  [op |-> op, w |-> w, english |-> None, vietnamese |-> None, key |-> None,
   ret |-> "None", saved |-> "none", had |-> 0, stale |-> FALSE, fresh |-> FALSE,
   dropped |-> {}, found |-> found]

Idle(w) == pending[w] = <<>>

\* ------------------------------------------------------------------ csv
\* One digit of a decimal literal, or -1.
DigitValue(c) ==
  CASE c = "0" -> 0 [] c = "1" -> 1 [] c = "2" -> 2 [] c = "3" -> 3 [] c = "4" -> 4
    [] c = "5" -> 5 [] c = "6" -> 6 [] c = "7" -> 7 [] c = "8" -> 8 [] c = "9" -> 9
    [] OTHER -> -1

\* float(x) for a cell x of a row: [ok, val], val in tenths. None (a short row) and
\* a text that is no decimal literal raise.
FloatOf(x) ==
  IF x = None THEN [ok |-> FALSE, val |-> 0]
  ELSE LET s == strip(x)
       IN IF Len(s) = 1 /\ DigitValue(s[1]) >= 0
          THEN [ok |-> TRUE, val |-> 10 * DigitValue(s[1])]
          ELSE IF Len(s) = 3 /\ DigitValue(s[1]) >= 0 /\ s[2] = "." /\ DigitValue(s[3]) >= 0
               THEN [ok |-> TRUE, val |-> 10 * DigitValue(s[1]) + DigitValue(s[3])]
               ELSE [ok |-> FALSE, val |-> 0]

\* A row of csv.DictReader: a function from the header's columns to cells.
RowFull(e, v, cat, conf) ==
  [c \in {"English", "Vietnamese", "Category", "Confidence"} |->
     CASE c = "English" -> e [] c = "Vietnamese" -> v [] c = "Category" -> cat
       [] OTHER -> conf]

RowShort(e, v) == [c \in {"English", "Vietnamese"} |-> IF c = "English" THEN e ELSE v]

\* Files given to import_csv. Two good rows.
GoodFile ==
  << RowFull(<<"A", " ">>, <<"x">>, <<"c">>, <<"0", ".", "5">>),
     RowFull(<<"b">>, <<"Y", " ">>, <<"g">>, <<"1">>) >>

\* A row whose Confidence is no number, before a good row.
BadConfidenceFile ==
  << RowFull(<<"b">>, <<"x">>, <<"g">>, <<"h", "i">>),
     RowFull(<<"a">>, <<"x">>, <<"c">>, <<"0", ".", "5">>) >>

\* Under a header of two columns, a row cut short before a good row.
ShortRowFile == << RowShort(<<"b">>, None), RowShort(<<"a">>, <<" ", "x">>) >>

CsvFiles == { GoodFile, BadConfidenceFile, ShortRowFile }

\* The category label of a cell.
CategoryOf(x) ==
  IF x = <<"c">> THEN "cardiology" ELSE IF x = <<"g">> THEN "general" ELSE "other"

\* The arguments import_csv evaluates for one row: raises (ok = FALSE) on a missing
\* English or Vietnamese column and on a Confidence float() rejects.
RowArgs(row) ==
  LET cols == DOMAIN row
      conf == IF "Confidence" \in cols THEN FloatOf(row["Confidence"])
              ELSE [ok |-> TRUE, val |-> 10]
  IN [ok |-> "English" \in cols /\ "Vietnamese" \in cols /\ conf.ok,
      english |-> IF "English" \in cols THEN row["English"] ELSE None,
      vietnamese |-> IF "Vietnamese" \in cols THEN row["Vietnamese"] ELSE None,
      category |-> IF "Category" \in cols THEN CategoryOf(row["Category"]) ELSE "general",
      confidence |-> conf.val]

\* ------------------------------------------------------------------ paper cache
\* The DOIs asked for. Two of them differ only in "/" against "_".
Dois == { <<"1", "/", "a", "_", "b">>, <<"1", "/", "a", "/", "b">>, <<"1", "/", "c">> }

\* doi.replace('/', '_')
ReplaceSlash(doi) == [i \in 1..Len(doi) |-> IF doi[i] = "/" THEN "_" ELSE doi[i]]

\* _get_cache_path(doi): the file name under cache_dir.
GetCachePath(doi) == ReplaceSlash(doi) \o << ".json" >>

CachePaths == { GetCachePath(doi) : doi \in Dois }

\* A cache file that does not exist, and cache_dir with no file in it.
NoEntry == [kind |-> "missing", data |-> <<>>, cached_at |-> 0]
EmptyCache == [p \in CachePaths |-> NoEntry]

\* A cache file that json.load rejects (a write that was cut short).
BrokenEntry == [kind |-> "corrupt", data |-> <<>>, cached_at |-> 0]

\* What the remote service holds for a DOI: the work as it is at revision rev, with
\* no references attached.
Work(doi, rev) == [DOI |-> doi, rev |-> rev, references |-> "absent"]

\* The answers of client.get_work_by_doi: status 200 with the work at one of two
\* revisions, status 404, or a failed request (raises).
WorkResponses == { "200-rev1", "200-rev2", "404", "error" }

\* The answers of client.get_references_by_doi.
ReferenceResponses == { "200", "404", "error" }

\* Outcomes of opening and writing a cache file in _cache_paper, and of reading
\* one in _get_cached_paper.
CacheWriteOutcomes == { "ok", "open_fails", "write_fails" }
CacheReadOutcomes == { "ok", "read_fails" }

\* _cache_paper(doi, data) on cache_dir c at time now: open('w') truncates; a
\* failure of open leaves the file as it was, a failure while writing leaves a
\* document cut short; either is logged and not raised.
CachePaper(c, doi, data, now, oc) ==
  CASE oc = "ok" ->
         [c EXCEPT ![GetCachePath(doi)] = [kind |-> "json", data |-> << data >>, cached_at |-> now]]
    [] oc = "open_fails" -> c
    [] OTHER -> [c EXCEPT ![GetCachePath(doi)] = BrokenEntry]

\* _get_cached_paper(doi): the data in a sequence of one, or the empty sequence for
\* None (no file, or a file that cannot be read or parsed).
GetCachedPaper(c, doi, oc) ==
  LET f == c[GetCachePath(doi)]
  IN IF f.kind = "missing" THEN <<>>
     ELSE IF f.kind = "json" /\ oc = "ok" THEN f.data ELSE <<>>

\* What a call of the retrieval system leaves behind: cache_dir, the value returned
\* (in a sequence of one; empty for None), whether it raised, whether it called
\* client.get_work_by_doi and client.get_references_by_doi, and what became of its
\* cache writes ("none": no write tried).
Retrieved(c, ret, raised, called, refs_called, wrote, wrote_refs) ==
  [cache |-> c, ret |-> ret, raised |-> raised, called |-> called,
   refs_called |-> refs_called, wrote |-> wrote, wrote_refs |-> wrote_refs]

\* get_paper calling the client although the cache has the paper.
GetPaperResultNoCache(c, doi, use_cache, now, rd, resp, wr) ==
  IF resp = "error" THEN Retrieved(c, <<>>, TRUE, TRUE, FALSE, "none", "none")
  ELSE IF resp = "404" THEN Retrieved(c, <<>>, FALSE, TRUE, FALSE, "none", "none")
  ELSE LET paper == Work(doi, IF resp = "200-rev1" THEN 1 ELSE 2)
       IN Retrieved(CachePaper(c, doi, paper, now, wr), << paper >>, FALSE, TRUE, FALSE,
                    wr, "none")

\* get_paper(doi, use_cache): rd is the outcome of reading the cache file, resp the
\* client's answer, wr the outcome of the cache write. A cached work is a non-empty
\* dict, hence true.
GetPaperResult(c, doi, use_cache, now, rd, resp, wr) ==
  LET cached == IF use_cache THEN GetCachedPaper(c, doi, rd) ELSE <<>>
  IN IF cached # <<>> THEN Retrieved(c, cached, FALSE, FALSE, FALSE, "none", "none")
     ELSE IF resp = "error" THEN Retrieved(c, <<>>, TRUE, TRUE, FALSE, "none", "none")
     ELSE IF resp = "404" THEN Retrieved(c, <<>>, FALSE, TRUE, FALSE, "none", "none")
     ELSE LET paper == Work(doi, IF resp = "200-rev1" THEN 1 ELSE 2)
          IN Retrieved(CachePaper(c, doi, paper, now, wr), << paper >>, FALSE, TRUE, FALSE,
                       wr, "none")

\* get_paper_with_references(doi, use_cache): get_paper, then the references and,
\* when there are some, a second cache write of the paper with them.
GetPaperWithReferencesResult(c, doi, use_cache, now, rd, resp, wr, refs, wr2) ==
  LET g == GetPaperResult(c, doi, use_cache, now, rd, resp, wr)
  IN IF g.raised \/ g.ret = <<>> THEN g
     ELSE IF refs = "error"
          THEN Retrieved(g.cache, <<>>, TRUE, g.called, TRUE, g.wrote, "none")
     ELSE IF refs = "404"
          THEN Retrieved(g.cache, g.ret, FALSE, g.called, TRUE, g.wrote, "none")
     ELSE LET paper == [g.ret[1] EXCEPT !.references = "attached"]
          IN Retrieved(CachePaper(g.cache, doi, paper, now, wr2), << paper >>, FALSE,
                       g.called, TRUE, g.wrote, wr2)

\* ------------------------------------------------------------------ actions
\* After construction on a file that is missing or is no JSON document.
Init ==
  /\ disk \in {NoFile, CorruptFile}
  /\ terms = [w \in Writers |-> LoadDictionary(disk, "ok")]
  /\ clock = 0
  /\ pending = [w \in Writers |-> <<>>]
  /\ lastOp = Construction("init", 1, disk.kind)
  /\ cache = EmptyCache

\* Store instance w is constructed anew (the process restarts): __init__ loads the file.
Load(w, oc) ==
  /\ Idle(w)
  /\ terms' = [terms EXCEPT ![w] = LoadDictionary(disk, oc)]
  /\ lastOp' = Construction("load", w, IF oc = "ok" THEN disk.kind ELSE "unreadable")
  /\ UNCHANGED << disk, clock, pending, cache >>

\* The effect r of a call of add_term or update_term by w.
Apply(w, r, op, english, vietnamese) ==
  /\ r.clock <= MaxClock
  /\ SumLen(r.terms) <= MaxEntries
  /\ terms' = [terms EXCEPT ![w] = r.terms]
  /\ disk' = r.disk
  /\ clock' = r.clock
  /\ lastOp' = Call(op, w, english, vietnamese, r.key, r.ret, r.saved, r.disk)
  /\ UNCHANGED cache

AddTerm(w, english, vietnamese, category, source, confidence, ds, oc) ==
  /\ Idle(w)
  /\ Apply(w, AddTermResult(terms[w], disk, clock, english, vietnamese, category, source,
                            confidence, ds, oc),
           "add_term", english, vietnamese)
  /\ UNCHANGED pending

UpdateTerm(w, english, vietnamese, source, confidence, ds, oc) ==
  /\ Idle(w)
  /\ Apply(w, UpdateTermResult(terms[w], disk, clock, english, vietnamese, source,
                               confidence, ds, oc),
           "update_term", english, vietnamese)
  /\ UNCHANGED pending

\* import_csv opens the file and creates the reader.
ImportOpen(w, rows) ==
  /\ Idle(w)
  /\ pending' = [pending EXCEPT ![w] = rows]
  /\ lastOp' = Call("import_open", w, None, None, None, "None", "none", disk)
  /\ UNCHANGED << terms, disk, clock, cache >>

\* One turn of import_csv's loop: add_term with the row's fields, or the exception
\* that ends the import.
ImportRow(w, ds, oc) ==
  /\ pending[w] # <<>>
  /\ LET a == RowArgs(Head(pending[w]))
     IN IF a.ok
        THEN /\ Apply(w, AddTermResult(terms[w], disk, clock, a.english, a.vietnamese,
                                       a.category, "import", a.confidence, ds, oc),
                      "import_row", a.english, a.vietnamese)
             /\ pending' = [pending EXCEPT ![w] = Tail(@)]
        ELSE /\ pending' = [pending EXCEPT ![w] = <<>>]
             /\ lastOp' = Call("import_abort", w, None, None, None, "None", "none", disk)
             /\ UNCHANGED << terms, disk, clock, cache >>

\* One call by one of the instances W, with arguments drawn from E, V, C and M (a
\* source with a confidence), the clock advancing by one of D before each reading,
\* saves ending in one of O, loads in one of L, and imports reading one of F.
Step(W, E, V, C, M, D, O, L, F) ==
  \/ \E w \in W, oc \in L : Load(w, oc)
  \/ \E w \in W, english \in E, vietnamese \in V, category \in C, m \in M,
        ds \in [1..3 -> D], oc \in O :
       AddTerm(w, english, vietnamese, category, m[1], m[2], ds, oc)
  \/ \E w \in W, english \in E, vietnamese \in V, m \in M, ds \in [1..2 -> D], oc \in O :
       UpdateTerm(w, english, vietnamese, m[1], m[2], ds, oc)
  \/ \E w \in W, rows \in F : ImportOpen(w, rows)
  \/ \E w \in W, ds \in [1..3 -> D], oc \in O : ImportRow(w, ds, oc)

\* A source with its confidence, as callers pass them.
Metas == { <<"manual", 10>>, <<"import", 5>> }

\* A single store instance, any key, translation, source and confidence (a second
\* category comes in through import_csv), a clock that stands still and a file
\* system that does not fail.
Next == Step({1}, EnglishArgs, VietnameseArgs, {"general"}, Metas, {0}, {"ok"}, {"ok"},
       {GoodFile})

Spec == Init /\ [][Next]_vars

\* A single store instance with the clock advancing between readings.
NextClock ==
  Step({1}, {<<"a">>, <<"b">>, None}, {<<"x">>}, {"general"}, {<<"manual", 10>>},
       {0, 1}, {"ok"}, {"ok"}, {BadConfidenceFile})

SpecClock == Init /\ [][NextClock]_vars

\* A single store instance on a file system whose opens, writes and reads may fail.
NextDisk ==
  Step({1}, {<<"a">>, <<"b">>, None}, {<<"x">>}, {"general"}, {<<"manual", 10>>},
       {0}, SaveOutcomes, LoadOutcomes, {ShortRowFile})

SpecDisk == Init /\ [][NextDisk]_vars

\* Two store instances on the same file, each calling add_term and update_term.
NextTwo ==
  \/ \E w \in Writers : Load(w, "ok")
  \/ \E w \in Writers, english \in {<<"a">>, <<"b">>} :
       AddTerm(w, english, <<"x">>, "general", "manual", 10, <<0, 0, 0>>, "ok")
  \/ \E w \in Writers, english \in {<<"a">>, <<"b">>} :
       UpdateTerm(w, english, <<"x">>, "manual", 10, <<0, 0>>, "ok")

SpecTwo == Init /\ [][NextTwo]_vars

\* ------------------------------------------------------------------ similarity
\* The record of a call that only reads the store: its name, instance, arguments
\* and what it returned.
Query(op, w, english, vietnamese, n, out) ==
  [op |-> op, w |-> w, english |-> english, vietnamese |-> vietnamese, n |-> n,
   out |-> out]

\* The length of the run on which a from i and b from j agree, inside a[..ahi] and
\* b[..bhi].
RECURSIVE RunLen(_, _, _, _, _, _)
RunLen(a, b, i, j, ahi, bhi) ==
  IF i > ahi \/ j > bhi THEN 0
  ELSE IF a[i] # b[j] THEN 0
  ELSE 1 + RunLen(a, b, i + 1, j + 1, ahi, bhi)

\* SequenceMatcher.find_longest_match on a[alo..ahi] and b[blo..bhi] (no junk): the
\* longest matching block, of those the one starting earliest in a, and of those
\* the one starting earliest in b.
FindLongestMatch(a, b, alo, ahi, blo, bhi) ==
  LET starts == (alo..ahi) \X (blo..bhi)
      size(s) == RunLen(a, b, s[1], s[2], ahi, bhi)
      longest == { s \in starts : \A o \in starts : size(o) <= size(s) }
      first == CHOOSE s \in longest :
                 \A o \in longest : s[1] < o[1] \/ (s[1] = o[1] /\ s[2] <= o[2])
  IN IF starts = {} THEN [i |-> alo, j |-> blo, size |-> 0]
     ELSE [i |-> first[1], j |-> first[2], size |-> size(first)]

\* SequenceMatcher.get_matching_blocks, summed: the longest block, then the same to
\* its left and to its right.
RECURSIVE MatchingSize(_, _, _, _, _, _)
MatchingSize(a, b, alo, ahi, blo, bhi) ==
  LET x == FindLongestMatch(a, b, alo, ahi, blo, bhi)
  IN IF x.size = 0 THEN 0
     ELSE x.size + MatchingSize(a, b, alo, x.i - 1, blo, x.j - 1)
                 + MatchingSize(a, b, x.i + x.size, ahi, x.j + x.size, bhi)

\* SequenceMatcher(None, a, b).ratio(): 2.0 * matches / length as a fraction, 1.0
\* when both strings are empty.
Ratio(a, b) ==
  IF Len(a) + Len(b) = 0 THEN [num |-> 1, den |-> 1]
  ELSE [num |-> 2 * MatchingSize(a, b, 1, Len(a), 1, Len(b)), den |-> Len(a) + Len(b)]

\* r1 < r2 on ratios.
RatioLess(r1, r2) == r1.num * r2.den < r2.num * r1.den

\* The minimum similarity threshold 0.6, in tenths.
ThresholdTenths == 6

\* The threshold test letting a ratio of exactly 0.6 through.
AboveThresholdInclusive(r) == 10 * r.num >= ThresholdTenths * r.den

\* ratio > 0.6
AboveThreshold(r) == 10 * r.num > ThresholdTenths * r.den

\* The loop over self.terms.keys(): the matches in the order of the dict.
RECURSIVE Matches(_, _)
Matches(term, t) ==
  IF t = <<>> THEN <<>>
  ELSE LET r == Ratio(term, Head(t).key)
       IN (IF AboveThreshold(r) THEN << [term |-> Head(t).key, ratio |-> r] >> ELSE <<>>)
            \o Matches(term, Tail(t))

\* sorted(matches, key=ratio, reverse=True): stable, so that matches of equal
\* ratio keep their order.
RECURSIVE SortedByRatio(_)
SortedByRatio(ms) ==
  IF ms = <<>> THEN <<>>
  ELSE LET rest == SortedByRatio(SubSeq(ms, 1, Len(ms) - 1))
           x == ms[Len(ms)]
           ahead == { i \in 1..Len(rest) : ~RatioLess(rest[i].ratio, x.ratio) }
           k == Cardinality(ahead)
       IN SubSeq(rest, 1, k) \o << x >> \o SubSeq(rest, k + 1, Len(rest))

\* get_similar_terms(term, n) for n >= 0.
GetSimilarTerms(t, term, n) ==
  LET ms == SortedByRatio(Matches(strip(lower(term)), t))
  IN SubSeq(ms, 1, IF n < Len(ms) THEN n ELSE Len(ms))

\* The default of n.
DefaultN == 5

\* The terms queried, the terms stored and the numbers of matches asked for.
SimilarQueries == { <<"a", "b">>, <<" ", "A", "B">>, <<"a", "b", "x", "a", "b">>, <<>> }
SimilarKeys ==
  { <<"a", "b">>, <<"a", "b", "x">>, <<"A">>, <<"b">>, <<"a", "b", "y", "b", "a">>, <<" ">> }
SimilarNs == { 0, 2, DefaultN }

SimilarTerms(w, term, n) ==
  /\ Idle(w)
  /\ lastOp' = Query("get_similar_terms", w, term, None, n, GetSimilarTerms(terms[w], term, n))
  /\ UNCHANGED << terms, disk, clock, pending, cache >>

\* A single store instance filled by add_term and queried by get_similar_terms.
NextSimilar ==
  \/ \E english \in SimilarKeys :
       AddTerm(1, english, <<"x">>, "general", "manual", 10, <<0, 0, 0>>, "ok")
  \/ \E term \in SimilarQueries, n \in SimilarNs : SimilarTerms(1, term, n)

SpecSimilar == Init /\ [][NextSimilar]_vars

\* ------------------------------------------------------------------ validator
\* The letters of vietnamese_chars (all lower case).
VietnameseChars == { "o-circ", "o-circ-acute", "d-bar" }

\* The letters of the class [...] searched for "Vietnamese words".
DiacriticBaseLetters == { "o-circ", "d-bar" }

AsciiLetters == { "a", "b", "s", "t", "x", "y", "A", "B", "X", "Y" }

\* The characters the class [^...] of _check_formatting lets through: a-z A-Z 0-9,
\* the letters of vietnamese_chars and the capital D with stroke, whitespace and
\* - . , ( )
FormattingWhitelist ==
  AsciiLetters \cup { "0", "1", "5", "9" } \cup VietnameseChars \cup { "D-bar" }
    \cup { " " } \cup { "-", ".", ",", "(", ")" }

\* Some character of text is in set S.
Contains(text, S) == \E i \in 1..Len(text) : text[i] \in S

\* _has_missing_diacritics(text)
HasMissingDiacritics(text) ==
  LET text_lower == lower(text)
      has_vietnamese_words == Contains(text_lower, DiacriticBaseLetters)
      has_diacritics == \E c \in VietnameseChars : Contains(text_lower, {c})
  IN has_vietnamese_words /\ ~has_diacritics

\* _check_formatting(text)
CheckFormatting(text) ==
  IF text = <<>> THEN FALSE
  ELSE IF text # strip(text) THEN FALSE
  ELSE IF \E i \in 1..(Len(text) - 1) : text[i] = " " /\ text[i + 1] = " " THEN FALSE
  ELSE IF \E i \in 1..Len(text) : text[i] \notin FormattingWhitelist THEN FALSE
  ELSE TRUE

\* confidence *= tenths / 10, confidences counted in thousandths.
Discount(confidence, tenths) == (confidence * tenths) \div 10

\* The comparison of validate_translation with the dictionary, made on the texts
\* as they are.
DictionaryDiffersExact(t, english, vietnamese) ==
  LET existing == GetTranslation(t, english)
  IN existing # <<>> /\ existing[1].vietnamese # vietnamese

\* validate_translation: the term is in the dictionary and its translation,
\* lower-cased, is not the proposed one lower-cased.
DictionaryDiffers(t, english, vietnamese) ==
  LET existing == GetTranslation(t, english)
  IN existing # <<>> /\ lower(existing[1].vietnamese) # lower(vietnamese)

\* results after one check: as they were when it passed, else invalid with the
\* issue and the discount added.
Checked(results, failed, issue, tenths) ==
  IF failed
  THEN [results EXCEPT !.valid = FALSE,
                       !.issues = Append(@, issue),
                       !.confidence = Discount(@, tenths)]
  ELSE results

\* The entries of "similar_terms" (none: the key is not set).
SimilarEntries(t, english) ==
  LET similar_terms == GetSimilarTerms(t, english, DefaultN)
  IN [i \in 1..Len(similar_terms) |->
        [english |-> similar_terms[i].term,
         vietnamese |-> DictGet(t, similar_terms[i].term).vietnamese,
         similarity |-> similar_terms[i].ratio]]

\* validate_translation stopping at the first check that fails.
ValidateTranslationShortCircuit(t, english, vietnamese) ==
  LET results == [valid |-> TRUE, issues |-> <<>>, confidence |-> 1000, suggestions |-> <<>>,
                  similar_terms |-> SimilarEntries(t, english)]
  IN IF DictionaryDiffers(t, english, vietnamese)
     THEN [Checked(results, TRUE, "Translation differs from dictionary", 7)
             EXCEPT !.suggestions = << GetTranslation(t, english)[1].vietnamese >>]
     ELSE IF HasMissingDiacritics(vietnamese)
     THEN Checked(results, TRUE, "Missing diacritical marks", 8)
     ELSE Checked(results, ~CheckFormatting(vietnamese), "Incorrect formatting", 9)

\* validate_translation(english, vietnamese): the results dictionary.
ValidateTranslation(t, english, vietnamese) ==
  LET results == [valid |-> TRUE, issues |-> <<>>, confidence |-> 1000, suggestions |-> <<>>,
                  similar_terms |-> SimilarEntries(t, english)]
      differs == DictionaryDiffers(t, english, vietnamese)
      r1 == [Checked(results, differs, "Translation differs from dictionary", 7)
               EXCEPT !.suggestions =
                        IF differs THEN << GetTranslation(t, english)[1].vietnamese >> ELSE @]
      r2 == Checked(r1, HasMissingDiacritics(vietnamese), "Missing diacritical marks", 8)
  IN Checked(r2, ~CheckFormatting(vietnamese), "Incorrect formatting", 9)

\* One suggestion: its fixed text and the text put into it.
Line(text, arg) == [text |-> text, arg |-> arg]

\* suggest_improvements(english, vietnamese): the list of suggestions.
SuggestImprovements(t, english, vietnamese) ==
  LET existing == GetTranslation(t, english)
      similar_terms == GetSimilarTerms(t, english, DefaultN)
      top == SubSeq(similar_terms, 1, IF Len(similar_terms) > 3 THEN 3 ELSE Len(similar_terms))
  IN (IF existing # <<>> /\ existing[1].vietnamese # vietnamese
      THEN << Line("Consider using established translation", existing[1].vietnamese) >>
      ELSE <<>>)
     \o (IF HasMissingDiacritics(vietnamese)
         THEN << Line("Add appropriate diacritical marks to Vietnamese text", <<>>) >>
         ELSE <<>>)
     \o (IF ~CheckFormatting(vietnamese)
         THEN << Line("Fix formatting issues (whitespace, special characters)", <<>>) >>
         ELSE <<>>)
     \o (IF similar_terms # <<>>
         THEN << Line("Related terms for reference:", <<>>) >>
              \o [i \in 1..Len(top) |->
                    Line("-", top[i].term \o <<":", " ">> \o DictGet(t, top[i].term).vietnamese)]
         ELSE <<>>)

\* The translations stored and the translations proposed.
StoredTranslations == { <<"x">>, <<"d-bar", "o-circ">> }
ProposedTranslations ==
  { <<"x">>, <<"X">>, <<"d-bar", "o-circ">>, <<"D-bar", "a">>, <<"s", "o-circ-acute", "t">>,
    <<"O-circ">>, <<"x", " ", " ", "y">>, <<" ", "x">>, <<"x", "!">>, <<"x", " ", "(", "y", ")">>,
    <<>> }
ValidatedTerms == { <<"a">>, <<" ", "A">>, <<"b">> }

Validate(w, english, vietnamese) ==
  /\ Idle(w)
  /\ lastOp' = Query("validate_translation", w, english, vietnamese, DefaultN,
                     ValidateTranslation(terms[w], english, vietnamese))
  /\ UNCHANGED << terms, disk, clock, pending, cache >>

Suggest(w, english, vietnamese) ==
  /\ Idle(w)
  /\ lastOp' = Query("suggest_improvements", w, english, vietnamese, DefaultN,
                     SuggestImprovements(terms[w], english, vietnamese))
  /\ UNCHANGED << terms, disk, clock, pending, cache >>

\* A single store instance filled by add_term, the validator reading it.
NextValidate ==
  \/ \E english \in { <<"a">>, <<"b">> }, vietnamese \in StoredTranslations :
       AddTerm(1, english, vietnamese, "general", "manual", 10, <<0, 0, 0>>, "ok")
  \/ \E english \in ValidatedTerms, vietnamese \in ProposedTranslations :
       Validate(1, english, vietnamese)
  \/ \E english \in ValidatedTerms, vietnamese \in ProposedTranslations :
       Suggest(1, english, vietnamese)

SpecValidate == Init /\ [][NextValidate]_vars

\* ------------------------------------------------------------------ export
\* The digit of n.
DigitChar(n) == CHOOSE c \in { "0", "1", "2", "3", "4", "5", "6", "7", "8", "9" } : DigitValue(c) = n

\* str(confidence) as csv.writer writes a float, confidence in tenths.
FloatStr(confidence) == << DigitChar(confidence \div 10), ".", DigitChar(confidence % 10) >>

\* The text of a category label.
CategoryCell(category) ==
  IF category = "cardiology" THEN <<"c">> ELSE IF category = "general" THEN <<"g">> ELSE <<"o">>

\* export_csv: the rows written under the header English, Vietnamese, Category,
\* Confidence, Last Updated, one for each item of self.terms in dict order.
ExportCsv(t) ==
  [i \in 1..Len(t) |->
     [c \in {"English", "Vietnamese", "Category", "Confidence", "Last Updated"} |->
        CASE c = "English" -> t[i].key
          [] c = "Vietnamese" -> t[i].val.vietnamese
          [] c = "Category" -> CategoryCell(t[i].val.category)
          [] c = "Confidence" -> FloatStr(t[i].val.confidence)
          [] OTHER -> << DigitChar(t[i].val.last_updated) >>]]

\* A text read through open(filepath, 'r') without newline='': universal newlines
\* turn "\r\n" and "\r" into "\n", inside quoted fields too.
RECURSIVE UniversalNewlines(_)
UniversalNewlines(s) ==
  IF s = <<>> THEN <<>>
  ELSE IF Head(s) = "CR"
       THEN IF Len(s) >= 2 /\ s[2] = "LF"
            THEN <<"LF">> \o UniversalNewlines(Tail(Tail(s)))
            ELSE <<"LF">> \o UniversalNewlines(Tail(s))
       ELSE << Head(s) >> \o UniversalNewlines(Tail(s))

\* The rows csv.DictReader yields for the rows export_csv wrote.
ReadCsv(rows) ==
  [i \in 1..Len(rows) |-> [c \in DOMAIN rows[i] |-> UniversalNewlines(rows[i][c])]]

\* export_csv by instance w.
Export(w) ==
  /\ Idle(w)
  /\ lastOp' = Query("export_csv", w, None, None, 0, ExportCsv(terms[w]))
  /\ UNCHANGED << terms, disk, clock, pending, cache >>

\* Translations, one of them with a carriage return inside.
ExportedTranslations == { <<"x">>, <<"y", "CR", "z">> }

\* Instance 1 is filled by add_term and update_term and then exports its terms;
\* instance 2, empty until then, imports the file just exported.
NextRoundTrip ==
  \/ \E english \in { <<"a">>, <<"b">> }, vietnamese \in ExportedTranslations, m \in Metas :
       /\ Idle(2) /\ terms[2] = <<>>
       /\ AddTerm(1, english, vietnamese, IF m[1] = "manual" THEN "general" ELSE "cardiology",
                  m[1], m[2], <<0, 0, 0>>, "ok")
  \/ \E english \in { <<"a">>, <<"b">> }, vietnamese \in ExportedTranslations :
       /\ Idle(2) /\ terms[2] = <<>>
       /\ UpdateTerm(1, english, vietnamese, "import", 5, <<0, 0>>, "ok")
  \/ terms[2] = <<>> /\ Export(1)
  \/ lastOp.op = "export_csv" /\ ImportOpen(2, ReadCsv(lastOp.out))
  \/ ImportRow(2, <<0, 0, 0>>, "ok")

SpecRoundTrip == Init /\ [][NextRoundTrip]_vars

\* ------------------------------------------------------------------ retrieval
\* The record of a call of the retrieval system: its name and arguments, what it
\* returned and did, the cache file of its DOI as the call found it, what became of
\* the attempt to read it ("none": no read tried), and the paths of the cache files
\* the call changed.
Fetch(op, doi, use_cache, rd, r) ==
  [op |-> op, doi |-> doi, use_cache |-> use_cache, ret |-> r.ret, raised |-> r.raised,
   read |-> IF use_cache /\ cache[GetCachePath(doi)].kind # "missing" THEN rd ELSE "none",
   called |-> r.called, refs_called |-> r.refs_called, wrote |-> r.wrote,
   wrote_refs |-> r.wrote_refs,
   before |-> cache[GetCachePath(doi)],
   touched |-> { p \in CachePaths : r.cache[p] # cache[p] }]

GetPaper(doi, use_cache, rd, resp, wr) ==
  LET r == GetPaperResult(cache, doi, use_cache, clock, rd, resp, wr)
  IN /\ cache' = r.cache
     /\ lastOp' = Fetch("get_paper", doi, use_cache, rd, r)
     /\ UNCHANGED << terms, disk, clock, pending >>

GetPaperWithReferences(doi, use_cache, rd, resp, wr, refs, wr2) ==
  LET r == GetPaperWithReferencesResult(cache, doi, use_cache, clock, rd, resp, wr, refs, wr2)
  IN /\ cache' = r.cache
     /\ lastOp' = Fetch("get_paper_with_references", doi, use_cache, rd, r)
     /\ UNCHANGED << terms, disk, clock, pending >>

\* The retrieval system alone, on a cache directory whose reads and writes may
\* fail and a remote service whose works change and whose requests may fail.
NextCache ==
  \/ \E doi \in Dois, use_cache \in BOOLEAN, rd \in CacheReadOutcomes, resp \in WorkResponses,
        wr \in CacheWriteOutcomes :
       GetPaper(doi, use_cache, rd, resp, wr)
  \/ \E doi \in Dois, use_cache \in BOOLEAN, resp \in { "200-rev1", "404" },
        refs \in ReferenceResponses, wr2 \in { "ok", "write_fails" } :
       GetPaperWithReferences(doi, use_cache, "ok", resp, "ok", refs, wr2)

SpecCache == Init /\ [][NextCache]_vars

\* ------------------------------------------------------------------ claims
Last(q) == q[Len(q)]

Records(w) == { terms[w][i].val : i \in 1..Len(terms[w]) }

\* The calls that change the mapping and save it.
Mutating == { "add_term", "update_term", "import_row" }

\* C1: every record of the store has at least one version entry, and its current
\* translation, confidence and source are those of the last entry of its versions.
C1_CurrentEqualsLastVersion ==
  \A w \in Writers : \A r \in Records(w) :
    /\ Len(r.versions) >= 1
    /\ r.vietnamese = Last(r.versions).vietnamese
    /\ r.confidence = Last(r.versions).confidence
    /\ r.source = Last(r.versions).source

\* An update has just given a record a last entry that differs from its first in
\* translation, confidence and source.
C1_Witness ==
  /\ lastOp.op = "update_term" /\ lastOp.ret = "True"
  /\ \E r \in Records(1) :
       /\ Len(r.versions) >= 2
       /\ r.versions[1].vietnamese # r.vietnamese
       /\ r.versions[1].confidence # r.confidence
       /\ r.versions[1].source # r.source

\* The record of key k in the mapping of instance w.
RecordOf(w, k) == DictGet(terms[w], k)

\* C2: after a successful add_term or update_term on a key, the record's
\* last_updated equals the date of its most recent version entry.
C2_LastUpdatedIsLastVersionDate ==
  (lastOp.op \in {"add_term", "update_term"} /\ lastOp.ret = "True")
    => RecordOf(lastOp.w, lastOp.key).last_updated
         = Last(RecordOf(lastOp.w, lastOp.key).versions).date

\* C3, as claimed: no call of add_term, update_term or import_csv changes the
\* added_date of a key that is in the store.
C3_AddedDateNeverChanges ==
  [][ lastOp'.op \in Mutating =>
        \A k \in DictKeys(terms[1]) \cap DictKeys(terms'[1]) :
          DictGet(terms'[1], k).added_date = DictGet(terms[1], k).added_date ]_vars

\* C3, amended: a successful add_term (also as a row of import_csv) on key K sets
\* K's added_date to its first reading of the clock, whether or not K was present;
\* every other call leaves the added_date of every key as it was, and removes no key.
C3_AddedDateSetByAddOnly ==
  [][ lastOp'.op \in Mutating =>
        /\ DictKeys(terms[1]) \subseteq DictKeys(terms'[1])
        /\ \A k \in DictKeys(terms'[1]) :
             IF lastOp'.op \in {"add_term", "import_row"} /\ lastOp'.ret = "True"
                /\ k = strip(lower(lastOp'.english))
             THEN /\ DictGet(terms'[1], k).added_date >= clock
                  /\ DictGet(terms'[1], k).added_date <= clock'
             ELSE /\ k \in DictKeys(terms[1])
                  /\ DictGet(terms'[1], k).added_date = DictGet(terms[1], k).added_date ]_vars

\* update_term has just acted, at a later reading of the clock, on a record that
\* keeps the added_date of its first insertion.
C3_Witness ==
  /\ lastOp.op = "update_term" /\ lastOp.ret = "True"
  /\ RecordOf(1, lastOp.key).added_date < RecordOf(1, lastOp.key).last_updated
  /\ RecordOf(1, lastOp.key).added_date < Last(RecordOf(1, lastOp.key).versions).date

\* C4: after a successful add_term(K, V), get_translation(K) returns a record whose
\* current translation is V trimmed and whose versions are exactly one entry
\* carrying it, however many versions K had before.
C4_AddOverwrites ==
  (lastOp.op = "add_term" /\ lastOp.ret = "True") =>
    LET got == GetTranslation(terms[lastOp.w], lastOp.english)
    IN /\ Len(got) = 1
       /\ got[1].vietnamese = strip(lastOp.vietnamese)
       /\ Len(got[1].versions) = 1
       /\ got[1].versions[1].vietnamese = strip(lastOp.vietnamese)

\* add_term has just replaced a record of two or more versions, with a translation
\* that needed trimming.
C4_Witness ==
  /\ lastOp.op = "add_term" /\ lastOp.ret = "True"
  /\ lastOp.had >= 2
  /\ strip(lastOp.vietnamese) # lastOp.vietnamese
  /\ Len(terms[1]) = 2

\* C5: a successful update_term(K, V) leaves K's versions equal to what they were
\* followed by one new entry carrying V (trimmed), and K's current translation V.
C5_UpdateAppends ==
  [][ (lastOp'.op = "update_term" /\ lastOp'.ret = "True") =>
        LET k == strip(lower(lastOp'.english))
            before == DictGet(terms[1], k).versions
            after == DictGet(terms'[1], k).versions
        IN /\ k \in DictKeys(terms[1])
           /\ Len(after) = Len(before) + 1
           /\ SubSeq(after, 1, Len(before)) = before
           /\ Last(after).vietnamese = strip(lastOp'.vietnamese)
           /\ DictGet(terms'[1], k).vietnamese = strip(lastOp'.vietnamese) ]_vars

\* add_term(K, V1), update_term(K, V2), update_term(K, V3) have left K with the
\* versions V1, V2, V3 and the current translation V3.
C5_Witness ==
  /\ lastOp.op = "update_term" /\ lastOp.ret = "True"
  /\ LET r == RecordOf(1, lastOp.key)
     IN /\ [i \in 1..Len(r.versions) |-> r.versions[i].vietnamese]
             = << <<"x">>, <<"Y">>, <<"x">> >>
        /\ r.vietnamese = <<"x">>

\* C6: update_term on a key whose normalized form is absent returns False, creates
\* no record, leaves mapping and file as they were and attempts no save.
C6_UpdateAbsentFailsClosed ==
  [][ (/\ lastOp'.op = "update_term"
       /\ lastOp'.english # None
       /\ strip(lower(lastOp'.english)) \notin DictKeys(terms[1]))
      => /\ lastOp'.ret = "False"
         /\ lastOp'.saved = "none"
         /\ terms' = terms
         /\ disk' = disk ]_vars

\* update_term has just been refused for an absent key while the store held
\* records the file does not hold (a save would have changed the file).
C6_Witness ==
  /\ lastOp.op = "update_term" /\ lastOp.ret = "False"
  /\ lastOp.english # None
  /\ lastOp.key \notin DictKeys(terms[1])
  /\ terms[1] # <<>>
  /\ Stale(terms[1], disk)

\* C7: when the write of _save_dictionary fails during add_term or update_term,
\* the call returns False.
C7_FailedSaveReturnsFalse ==
  (lastOp.op \in {"add_term", "update_term"} /\ lastOp.saved \in {"open_fails", "write_fails"})
    => lastOp.ret = "False"

\* C8: when a mutating call returns after a successful write, the file holds the
\* whole mapping, and a fresh instance loading it obtains that mapping.
C8_FileEqualsMappingAfterSave ==
  (lastOp.op \in Mutating /\ lastOp.saved = "ok") =>
    /\ disk.kind = "json"
    /\ Len(disk.doc) = Len(terms[1])
    /\ \A i \in 1..Len(disk.doc) :
         /\ disk.doc[i][1] = terms[1][i].key
         /\ disk.doc[i][2] = terms[1][i].val
    /\ LoadDictionary(disk, "ok") = terms[1]

\* A call has just written successfully a mapping of two records that differed
\* from the file before the call (an earlier write had failed).
C8_Witness ==
  /\ lastOp.op \in Mutating /\ lastOp.saved = "ok"
  /\ lastOp.stale
  /\ lastOp.had >= 1
  /\ Len(terms[1]) = 2

\* C9: the last save wins on the whole store: after a successful call of one
\* instance the file holds exactly that instance's mapping, so every key the file
\* held that this instance does not have is gone from the file.
C9_LastSaveWinsWholeStore ==
  (lastOp.op \in {"add_term", "update_term"} /\ lastOp.ret = "True" /\ lastOp.saved = "ok") =>
    /\ LoadDictionary(disk, "ok") = terms[lastOp.w]
    /\ \A k \in lastOp.dropped : k \notin DictKeys(terms[lastOp.w])
    /\ \A k \in DictKeys(terms[lastOp.w]) : k \in FileKeys(disk)

\* One instance's successful call on a key has just removed from the file another
\* key, which the other instance had added and still holds.
C9_Witness ==
  /\ lastOp.op \in {"add_term", "update_term"} /\ lastOp.ret = "True"
  /\ \E w \in Writers \ {lastOp.w} : \E k \in lastOp.dropped :
       /\ k # lastOp.key
       /\ k \in DictKeys(terms[w])
       /\ k \notin FileKeys(disk)

\* C10: construction on a missing, corrupt or unreadable file leaves the mapping
\* empty; the first successful add_term (also as a row of import_csv) after it
\* leaves a file that holds the record just added and nothing else.
C10_LoadFallsBackToEmpty ==
  /\ (lastOp.op \in {"init", "load"} /\ lastOp.found # "json") => terms[lastOp.w] = <<>>
  /\ (lastOp.fresh /\ lastOp.op \in {"add_term", "import_row"} /\ lastOp.saved = "ok") =>
       /\ disk.kind = "json"
       /\ FileKeys(disk) = {lastOp.key}
       /\ LoadDictionary(disk, "ok") = terms[lastOp.w]

\* The first add_term after a construction that could not read the file has just
\* overwritten it, removing the keys it held.
C10_Witness ==
  /\ lastOp.fresh /\ lastOp.op = "add_term" /\ lastOp.saved = "ok"
  /\ lastOp.dropped # {}
  /\ lastOp.key \notin lastOp.dropped

\* The surface strings callers pass for a key.
Surfaces == EnglishArgs \ {None}

\* C11: lookup and mutation are by normalized key only. In every state every key is
\* lower-cased and trimmed and occurs once, and get_translation of two strings with
\* the same normal form returns the same record; after a successful add_term
\* through any surface string the normal form has one record, of one version,
\* whatever it had before; after a successful update_term through any surface
\* string the record the normal form had has one version more; and
\* get_translation through that string returns that record.
C11_NormalizedKeyOnly ==
  /\ \A w \in Writers :
       /\ \A i \in 1..Len(terms[w]) : terms[w][i].key = strip(lower(terms[w][i].key))
       /\ \A i, j \in 1..Len(terms[w]) : terms[w][i].key = terms[w][j].key => i = j
       /\ \A s1, s2 \in Surfaces :
            strip(lower(s1)) = strip(lower(s2))
              => GetTranslation(terms[w], s1) = GetTranslation(terms[w], s2)
  /\ (lastOp.op \in Mutating /\ lastOp.ret = "True") =>
       LET t == terms[lastOp.w]
           k == strip(lower(lastOp.english))
       IN /\ Cardinality({ i \in 1..Len(t) : t[i].key = k }) = 1
          /\ GetTranslation(t, lastOp.english) = << DictGet(t, k) >>
          /\ IF lastOp.op = "update_term"
             THEN lastOp.had >= 1 /\ VersionsOf(t, k) = lastOp.had + 1
             ELSE VersionsOf(t, k) = 1

\* update_term through the string " A" has just appended a version to the record
\* that import_csv created through the string "A ".
C11_Witness ==
  /\ lastOp.op = "update_term" /\ lastOp.ret = "True"
  /\ lastOp.english = <<" ", "A">>
  /\ lastOp.key = <<"a">>
  /\ Len(terms[1]) = 2
  /\ RecordOf(1, <<"a">>).category = "cardiology"
  /\ Len(RecordOf(1, <<"a">>).versions) = 2
  /\ GetTranslation(terms[1], <<"a">>) = GetTranslation(terms[1], <<" ", "A">>)

\* C12: under a clock that never goes back, every record has last_updated >=
\* added_date, and the dates of its versions never decrease from oldest to newest.
C12_TimestampsOrdered ==
  \A w \in Writers : \A r \in Records(w) :
    /\ r.last_updated >= r.added_date
    /\ \A i \in 1..(Len(r.versions) - 1) : r.versions[i].date <= r.versions[i + 1].date

\* update_term has just given a record, at a later reading of the clock, a second
\* version dated after the first, the first itself dated after added_date.
C12_Witness ==
  /\ lastOp.op = "update_term" /\ lastOp.ret = "True"
  /\ LET r == RecordOf(1, lastOp.key)
     IN /\ Len(r.versions) = 2
        /\ r.added_date < r.versions[1].date
        /\ r.versions[1].date < r.versions[2].date
        /\ r.added_date < r.last_updated

\* The ratio of stored key k against the query of the last call.
ScoreOf(k) == Ratio(strip(lower(lastOp.english)), k)

\* C13: get_similar_terms(term, n), n >= 0, returns at most n pairs; every returned
\* key is in the store and scores above 0.6; the pairs are in non-increasing order
\* of score, equal scores in the store's insertion order; no key left out that
\* scores above 0.6 scores higher than a returned one; and nothing is returned
\* when no key scores above 0.6.
C13_SimilarTermsRanked ==
  lastOp.op = "get_similar_terms" =>
    LET out == lastOp.out
        t == terms[lastOp.w]
        returned == { out[i].term : i \in 1..Len(out) }
        candidates == { k \in DictKeys(t) : AboveThreshold(ScoreOf(k)) }
    IN /\ Len(out) <= lastOp.n
       /\ \A i \in 1..Len(out) :
            /\ out[i].term \in DictKeys(t)
            /\ out[i].ratio = ScoreOf(out[i].term)
            /\ 10 * out[i].ratio.num > 6 * out[i].ratio.den
       /\ \A i, j \in 1..Len(out) :
            i < j => /\ ~RatioLess(out[i].ratio, out[j].ratio)
                     /\ RatioLess(out[j].ratio, out[i].ratio)
                          \/ DictIndex(t, out[i].term) < DictIndex(t, out[j].term)
       /\ \A k \in candidates \ returned : \A i \in 1..Len(out) :
            ~RatioLess(out[i].ratio, ScoreOf(k))
       /\ candidates = {} => out = <<>>

\* get_similar_terms has just returned two of three keys scoring above 0.6: the
\* best, stored second, and the earlier stored of two that score the same.
C13_Witness ==
  /\ lastOp.op = "get_similar_terms" /\ lastOp.n = 2
  /\ Len(lastOp.out) = 2
  /\ Len(terms[1]) = 3
  /\ DictIndex(terms[1], lastOp.out[1].term) = 2
  /\ DictIndex(terms[1], lastOp.out[2].term) = 1
  /\ ScoreOf(terms[1][3].key) = lastOp.out[2].ratio
  /\ RatioLess(lastOp.out[2].ratio, lastOp.out[1].ratio)

\* The members of sequence q.
Range(q) == { q[i] : i \in 1..Len(q) }

\* The texts of the suggestions q.
Texts(q) == { q[i].text : i \in 1..Len(q) }

\* C14: validate_translation runs its three checks one after the other whatever
\* the earlier ones found: issues holds the messages of the checks that fail, in
\* the order dictionary, diacritics, formatting; valid is true exactly when issues
\* is empty; and confidence is 1.0 times 0.7, 0.8 and 0.9 for the respective
\* failing checks, hence within [0, 1].
C14_AllChecksCombined ==
  lastOp.op = "validate_translation" =>
    LET out == lastOp.out
        d == DictionaryDiffers(terms[lastOp.w], lastOp.english, lastOp.vietnamese)
        a == HasMissingDiacritics(lastOp.vietnamese)
        f == ~CheckFormatting(lastOp.vietnamese)
    IN /\ out.issues = (IF d THEN << "Translation differs from dictionary" >> ELSE <<>>)
                         \o (IF a THEN << "Missing diacritical marks" >> ELSE <<>>)
                         \o (IF f THEN << "Incorrect formatting" >> ELSE <<>>)
       /\ out.valid <=> out.issues = <<>>
       /\ out.confidence * 1000
            = 1000 * (IF d THEN 7 ELSE 10) * (IF a THEN 8 ELSE 10) * (IF f THEN 9 ELSE 10)
       /\ out.confidence >= 0 /\ out.confidence <= 1000

\* validate_translation has just reported a translation that fails the dictionary
\* check and the formatting check: both issues, in that order, confidence 0.63.
C14_Witness ==
  /\ lastOp.op = "validate_translation"
  /\ lastOp.out.issues = << "Translation differs from dictionary", "Incorrect formatting" >>
  /\ lastOp.out.valid = FALSE
  /\ lastOp.out.confidence = 630

\* C15: validate_translation reports "Translation differs from dictionary",
\* suggests the stored translation and multiplies confidence by 0.7 exactly when
\* the normalized english key is in the store and its current translation, case
\* ignored, is not the proposed one; otherwise the check adds neither issue nor
\* suggestion.
C15_DictionaryCheck ==
  lastOp.op = "validate_translation" =>
    LET out == lastOp.out
        t == terms[lastOp.w]
        k == strip(lower(lastOp.english))
        differs == /\ k \in DictKeys(t)
                   /\ lower(DictGet(t, k).vietnamese) # lower(lastOp.vietnamese)
        others == (IF "Missing diacritical marks" \in Range(out.issues) THEN 8 ELSE 10)
                    * (IF "Incorrect formatting" \in Range(out.issues) THEN 9 ELSE 10)
    IN /\ ("Translation differs from dictionary" \in Range(out.issues)) <=> differs
       /\ out.suggestions = IF differs THEN << DictGet(t, k).vietnamese >> ELSE <<>>
       /\ out.confidence * 100 = 100 * (IF differs THEN 7 ELSE 10) * others

\* validate_translation, asked through " A" about a well-formed translation that is
\* not the stored one of key "a", has just reported the difference alone,
\* suggesting the stored translation.
C15_Witness ==
  /\ lastOp.op = "validate_translation"
  /\ lastOp.english = <<" ", "A">>
  /\ lastOp.vietnamese = <<"s", "o-circ-acute", "t">>
  /\ lastOp.out.issues = << "Translation differs from dictionary" >>
  /\ lastOp.out.suggestions = << <<"x">> >>
  /\ lastOp.out.confidence = 700

\* C16: validate_translation marks the result invalid with "Missing diacritical
\* marks" and multiplies confidence by 0.8 when the lower-cased text has one of the
\* base letters (a-breve, a-circ, d-bar, e-circ, o-circ, o-horn, u-horn) and no
\* letter with a diacritic mark elsewhere.
C16_MissingDiacriticsFlagged ==
  (/\ lastOp.op = "validate_translation"
   /\ Contains(lower(lastOp.vietnamese), DiacriticBaseLetters)
   /\ ~Contains(lower(lastOp.vietnamese), VietnameseChars \ DiacriticBaseLetters))
    => /\ lastOp.out.valid = FALSE
       /\ "Missing diacritical marks" \in Range(lastOp.out.issues)
       /\ lastOp.out.confidence \in { 800, 560, 720, 504 }

\* The characters C17 names as allowed: ASCII letters, digits, the Vietnamese
\* letters in both cases, whitespace, hyphen, period, comma and parentheses.
ClaimedWhitelist == FormattingWhitelist \cup { "O-circ" }

\* C17: validate_translation reports "Incorrect formatting" (confidence times 0.9)
\* exactly when the text is empty, starts or ends with whitespace, has two spaces
\* in a row, or has a character outside ASCII letters, digits, the Vietnamese
\* letters of either case, whitespace, hyphen, period, comma and parentheses.
C17_FormattingCheck ==
  lastOp.op = "validate_translation" =>
    LET text == lastOp.vietnamese
        defect == \/ text = <<>>
                  \/ text # strip(text)
                  \/ \E i \in 1..(Len(text) - 1) : text[i] = " " /\ text[i + 1] = " "
                  \/ \E i \in 1..Len(text) : text[i] \notin ClaimedWhitelist
    IN ("Incorrect formatting" \in Range(lastOp.out.issues)) <=> defect

\* C18: suggest_improvements emits the established-translation line exactly when
\* validate_translation reports "Translation differs from dictionary", the
\* diacritical-marks line exactly when it reports "Missing diacritical marks", and
\* the formatting line exactly when it reports "Incorrect formatting".
C18_SuggestionsMatchIssues ==
  lastOp.op = "suggest_improvements" =>
    LET issues == Range(ValidateTranslation(terms[lastOp.w], lastOp.english,
                                            lastOp.vietnamese).issues)
        texts == Texts(lastOp.out)
    IN /\ ("Consider using established translation" \in texts)
            <=> ("Translation differs from dictionary" \in issues)
       /\ ("Add appropriate diacritical marks to Vietnamese text" \in texts)
            <=> ("Missing diacritical marks" \in issues)
       /\ ("Fix formatting issues (whitespace, special characters)" \in texts)
            <=> ("Incorrect formatting" \in issues)

\* A row import_csv can hand to add_term with success: both required fields are
\* there and Confidence, when the header has it, is a number.
WellFormedRow(row) ==
  /\ "English" \in DOMAIN row /\ row["English"] # None
  /\ "Vietnamese" \in DOMAIN row /\ row["Vietnamese"] # None
  /\ "Confidence" \in DOMAIN row => FloatOf(row["Confidence"]).ok

\* C19: in import_csv a row with missing or malformed fields (an unparseable
\* Confidence included) fails alone: the import goes on to the rows after it, and
\* every well-formed row is imported through add_term.
C19_BadRowFailsAlone ==
  [][ \A w \in Writers :
        (pending[w] # <<>> /\ lastOp'.w = w /\ lastOp'.op \in {"import_row", "import_abort"}) =>
          /\ pending'[w] = Tail(pending[w])
          /\ DictKeys(terms[w]) \subseteq DictKeys(terms'[w])
          /\ WellFormedRow(Head(pending[w])) =>
               /\ lastOp'.ret = "True"
               /\ strip(lower(Head(pending[w])["English"])) \in DictKeys(terms'[w]) ]_vars

\* C20: export_csv of a store filled by add_term and update_term, then import_csv
\* of that file into a fresh empty store, gives the same key set with the same
\* current translation, category and confidence for every key, each re-imported
\* record having exactly one version.
C20_RoundTrip ==
  (/\ lastOp.w = 2
   /\ lastOp.op \in {"import_open", "import_row", "import_abort"}
   /\ pending[2] = <<>>)
    => /\ DictKeys(terms[2]) = DictKeys(terms[1])
       /\ \A k \in DictKeys(terms[1]) \cap DictKeys(terms[2]) :
            /\ DictGet(terms[2], k).vietnamese = DictGet(terms[1], k).vietnamese
            /\ DictGet(terms[2], k).category = DictGet(terms[1], k).category
            /\ DictGet(terms[2], k).confidence = DictGet(terms[1], k).confidence
            /\ Len(DictGet(terms[2], k).versions) = 1

\* The calls of the retrieval system.
Retrieving == { "get_paper", "get_paper_with_references" }

\* The cache file of the DOI of the last call.
EntryOf(doi) == cache[GetCachePath(doi)]

\* C21, as claimed: get_paper with use_cache returns the cached metadata without
\* calling the client whenever a cache file of the DOI is on disk, else calls the
\* client; metadata the client returns is persisted, so that the next get_paper is
\* served from the cache; a not-found result is None and is not cached; and no call
\* removes a cache file.
C21_CacheServesAndPersists ==
  /\ lastOp.op = "get_paper" =>
       /\ (lastOp.use_cache /\ lastOp.before.kind # "missing")
            => (~lastOp.called /\ lastOp.ret = lastOp.before.data)
       /\ ~(lastOp.use_cache /\ lastOp.before.kind # "missing") => lastOp.called
       /\ (lastOp.called /\ lastOp.ret # <<>>)
            => /\ EntryOf(lastOp.doi).kind = "json"
               /\ EntryOf(lastOp.doi).data = lastOp.ret
       /\ (lastOp.called /\ lastOp.ret = <<>>) => (lastOp.touched = {})
  /\ (lastOp.op \in Retrieving /\ lastOp.before.kind # "missing")
       => EntryOf(lastOp.doi).kind # "missing"

\* C21, amended: get_paper with use_cache returns the cached metadata, calling
\* neither the client nor the disk writer, exactly when the cache file of the DOI
\* is there and is read and parsed; a file that is missing, unreadable or cut
\* short counts as absent and the client is called. Metadata the client returns is
\* returned whatever becomes of the cache write: after a successful write the file
\* holds it and the next get_paper with use_cache returns it from the cache; a
\* write that cannot open the file leaves the file as it was, a write that fails
\* midway leaves it cut short. A not-found result is None, a failed request is
\* raised, and neither changes the cache. No call removes a cache file.
C21_CacheBestEffort ==
  /\ lastOp.op = "get_paper" =>
       LET hit == lastOp.use_cache /\ lastOp.before.kind = "json" /\ lastOp.read = "ok"
       IN /\ hit => /\ ~lastOp.called /\ ~lastOp.raised
                     /\ lastOp.ret = lastOp.before.data
                     /\ lastOp.wrote = "none" /\ lastOp.touched = {}
          /\ ~hit => lastOp.called
          /\ (lastOp.called /\ lastOp.ret # <<>>) =>
               /\ ~lastOp.raised
               /\ lastOp.ret[1].DOI = lastOp.doi
               /\ (lastOp.wrote = "ok") =>
                    /\ EntryOf(lastOp.doi).kind = "json"
                    /\ EntryOf(lastOp.doi).data = lastOp.ret
                    /\ \A resp \in WorkResponses, wr \in CacheWriteOutcomes :
                         LET next == GetPaperResult(cache, lastOp.doi, TRUE, clock, "ok", resp, wr)
                         IN ~next.called /\ next.ret = lastOp.ret
               /\ (lastOp.wrote = "open_fails") => (EntryOf(lastOp.doi) = lastOp.before)
               /\ (lastOp.wrote = "write_fails") => (EntryOf(lastOp.doi).kind = "corrupt")
          /\ (lastOp.called /\ lastOp.ret = <<>>) => (lastOp.wrote = "none" /\ lastOp.touched = {})
  /\ (lastOp.op \in Retrieving /\ lastOp.before.kind # "missing")
       => EntryOf(lastOp.doi).kind # "missing"

\* get_paper has just returned from the cache, without calling the client, a paper
\* with the references an earlier call attached, while another cache file is one a
\* failed write cut short.
C21_Witness ==
  /\ lastOp.op = "get_paper" /\ lastOp.use_cache
  /\ ~lastOp.called
  /\ lastOp.ret # <<>>
  /\ lastOp.ret[1].references = "attached"
  /\ lastOp.ret[1].DOI = lastOp.doi
  /\ \E p \in CachePaths : cache[p].kind = "corrupt"

\* C22: a call of add_term or update_term that returns False leaves the mapping as
\* it was before the call (no record created, no version appended, no current
\* field overwritten) and attempts no write of the backing file.
C22_FalseChangesNothing ==
  [][ (lastOp'.op \in {"add_term", "update_term"} /\ lastOp'.ret = "False")
      => /\ terms' = terms
         /\ lastOp'.saved = "none"
         /\ disk' = disk ]_vars

\* add_term has just returned False for a None argument while the store held
\* records the file does not hold (a save would have changed the file).
C22_Witness ==
  /\ lastOp.op = "add_term" /\ lastOp.ret = "False"
  /\ lastOp.english = None \/ lastOp.vietnamese = None
  /\ terms[1] # <<>>
  /\ Stale(terms[1], disk)

\* C23: cache isolation between identifiers: the metadata a retrieval call returns
\* is metadata of the DOI it was called with, never metadata cached for another
\* DOI, and a call that writes the cache never overwrites the entry that held the
\* metadata of another DOI.
C23_CacheIsolation ==
  lastOp.op \in Retrieving =>
    /\ (lastOp.ret # <<>>) => (lastOp.ret[1].DOI = lastOp.doi)
    /\ \A p \in lastOp.touched :
         /\ p = GetCachePath(lastOp.doi)
         /\ (lastOp.before.kind = "json") => (lastOp.before.data[1].DOI = lastOp.doi)

====
